---------------------------- MODULE Spec2Model ----------------------------
(***************************************************************************)
(* A model of src/main.c: the interactive Bezier-curve editor.            *)
(*                                                                         *)
(* Numbers.  The program computes with C floats; the model holds a float  *)
(* as its single-precision bit pattern and computes sums, differences and  *)
(* products as the C operators round them (see the F32 operators).         *)
(***************************************************************************)
EXTENDS Integers, Sequences, FiniteSets, TLC

\* Capacity of the point arrays ps and xs.  The program sets 256; the model
\* scales it down so that a full store is reachable.
PS_CAPACITY == 4

\* How many notches above its initial value the model lets the wheel take
\* the sample step (and none below it).
MaxWheel == 1

\* The model hands main at most this many events between two frames.
MaxEventsPerFrame == 2

\* How many points beyond PS_CAPACITY the model lets the store take: the
\* unchecked append of line 309 is followed this many cells behind ps.
MaxOverflow == 1

--------------------------------------------------------------------------
(* Single-precision arithmetic *)

(***************************************************************************)
(* A float is held as its IEEE-754 single-precision bit pattern, read as   *)
(* an integer, with the sign of the float: 0 for 0.0f, E * 2^23 + (M -     *)
(* 2^23) for x = M * 2^(E-150) > 0 with 2^23 <= M < 2^24 and E >= 1, M for *)
(* the subnormal x = M * 2^(-149) with 0 < M < 2^23, and -b for the        *)
(* negative of the float held as b.  On these integers the order is the    *)
(* order of the floats.  Sums, differences and products round to nearest,  *)
(* ties to even, with gradual underflow, as the C float operators do.      *)
(* -0.0f is held as 0: no sum of the program yields it, and a product that *)
(* yields it is added to a float that is not -0.0f.  The values of the     *)
(* model stay clear of infinities and NaN.  The operators named F32...     *)
(* work on floats >= 0.                                                    *)
(***************************************************************************)

F32Hidden == 2 ^ 23

\* The significand M and the exponent E of x = M * 2^(E-150); a subnormal
\* has no hidden bit and the exponent of the smallest normal floats.
F32Mant(b) == IF b < F32Hidden THEN b ELSE (b % F32Hidden) + F32Hidden

F32Exp(b) == IF b < F32Hidden THEN 1 ELSE b \div F32Hidden

\* x shifted right by d bits, a lost 1 bit kept in the lowest bit (sticky),
\* 0 <= x < 2^27.
F32ShiftRight(x, d) ==
    IF d > 27 THEN (IF x # 0 THEN 1 ELSE 0)
    ELSE LET q == x \div (2 ^ d)
         IN  IF x % (2 ^ d) # 0 /\ q % 2 = 0 THEN q + 1 ELSE q

\* The float of the mantissa m8 / 8 (three extra low bits) and exponent e,
\* m8 < 2^27, rounded to nearest, ties to even; 2^26 <= m8 unless e = 1.
\* Below the exponent 1 the mantissa loses its low bits (a subnormal).
F32Round(m8, e) ==
    LET s8  == IF e < 1 THEN F32ShiftRight(m8, 1 - e) ELSE m8
        e1  == IF e < 1 THEN 1 ELSE e
        m   == s8 \div 8
        r   == s8 % 8
        up  == r > 4 \/ (r = 4 /\ m % 2 = 1)
        m1  == IF up THEN m + 1 ELSE m
    IN  (e1 - 1) * F32Hidden + m1

\* m8 shifted left until its leading bit is bit 26.
RECURSIVE F32Normalize(_, _)
F32Normalize(m8, e) ==
    IF m8 < 8 * F32Hidden THEN F32Normalize(2 * m8, e - 1) ELSE F32Round(m8, e)

\* a + b in float, for a, b >= 0
F32Add(a, b) ==
    IF a = 0 THEN b
    ELSE IF b = 0 THEN a
    ELSE LET hi == IF a >= b THEN a ELSE b
             lo == IF a >= b THEN b ELSE a
             d  == F32Exp(hi) - F32Exp(lo)
         IN  IF d > 26 THEN hi
             ELSE LET sum == 8 * F32Mant(hi) + F32ShiftRight(8 * F32Mant(lo), d)
                  IN  IF sum >= 16 * F32Hidden
                      THEN F32Round(F32ShiftRight(sum, 1), F32Exp(hi) + 1)
                      ELSE F32Round(sum, F32Exp(hi))

\* a - b in float, for a >= b >= 0
F32Sub(a, b) ==
    IF b = 0 \/ F32Exp(a) - F32Exp(b) > 26 THEN a
    ELSE LET d    == F32Exp(a) - F32Exp(b)
             q    == (8 * F32Mant(b)) \div (2 ^ d)
             lost == (8 * F32Mant(b)) % (2 ^ d) # 0
             diff == IF lost
                     THEN 2 * ((8 * F32Mant(a) - q - 1) \div 2) + 1
                     ELSE 8 * F32Mant(a) - q
         IN  IF diff = 0 THEN 0 ELSE F32Normalize(diff, F32Exp(a))

\* The float literals 1.0f and 0.0f
F32One == 127 * F32Hidden
F32Zero == 0

\* The first j with n * 2^j >= 1000, for 1 <= n <= 1000.
RECURSIVE F32LitShift(_)
F32LitShift(n) == IF n >= 1000 THEN 0 ELSE 1 + F32LitShift(2 * n)

\* Long division by 1000: k more quotient bits behind the quotient acc, from
\* the remainder r; the result is <<quotient, remainder>>.
RECURSIVE F32LitBits(_, _, _)
F32LitBits(r, k, acc) ==
    IF k = 0 THEN <<acc, r>>
    ELSE IF 2 * r >= 1000
         THEN F32LitBits(2 * r - 1000, k - 1, 2 * acc + 1)
         ELSE F32LitBits(2 * r, k - 1, 2 * acc)

\* The float literal whose decimal value is milli / 1000 (0.05f is
\* F32Lit(50)): the nearest float, ties to even, 1 <= milli <= 1000.
F32Lit(milli) ==
    LET j  == F32LitShift(milli)
        qr == F32LitBits(milli * (2 ^ j) - 1000, 23, 1)
        m  == qr[1]
        up == 2 * qr[2] > 1000 \/ (2 * qr[2] = 1000 /\ m % 2 = 1)
        m1 == IF up THEN m + 1 ELSE m
    IN  (127 - j) * F32Hidden + (m1 - F32Hidden)

\* a + b in float
FAdd(a, b) ==
    IF a >= 0 /\ b >= 0 THEN F32Add(a, b)
    ELSE IF a <= 0 /\ b <= 0 THEN -F32Add(-a, -b)
    ELSE LET plus  == IF a > 0 THEN a ELSE b
             minus == IF a > 0 THEN -b ELSE -a
         IN  IF plus >= minus THEN F32Sub(plus, minus)
             ELSE -F32Sub(minus, plus)

\* a - b in float
FSub(a, b) == FAdd(a, -b)

\* The significand of a float > 0 with its leading bit at bit 23, and the
\* exponent that goes with it (below 1 for a subnormal).
RECURSIVE F32WideMant(_)
F32WideMant(m) == IF m < F32Hidden THEN F32WideMant(2 * m) ELSE m

RECURSIVE F32WideExp(_, _)
F32WideExp(m, e) == IF m < F32Hidden THEN F32WideExp(2 * m, e - 1) ELSE e

\* a * b in float, for a, b > 0: the 48-bit product of the significands,
\* from their 12-bit halves, rounded to 24 bits.
F32Mul(a, b) ==
    LET ma   == F32WideMant(F32Mant(a))
        mb   == F32WideMant(F32Mant(b))
        ah   == ma \div 4096
        al   == ma % 4096
        bh   == mb \div 4096
        bl   == mb % 4096
        mid  == ah * bl + al * bh
        low  == (mid % 4096) * 4096 + al * bl
        high == ah * bh + mid \div 4096 + low \div (2 * F32Hidden)
        rest == low % (2 * F32Hidden)
        wide == high >= F32Hidden
        m    == IF wide THEN high ELSE 2 * high + rest \div F32Hidden
        r    == IF wide THEN rest ELSE 2 * (rest % F32Hidden)
        e    == F32WideExp(F32Mant(a), F32Exp(a))
                + F32WideExp(F32Mant(b), F32Exp(b))
                - (IF wide THEN 126 ELSE 127)
        r8   == F32ShiftRight(r, 21)
    IN  F32Round(8 * m + r8, e)

\* a * b in float
FMul(a, b) ==
    IF a = 0 \/ b = 0 THEN 0
    ELSE IF (a > 0) = (b > 0)
         THEN F32Mul(IF a > 0 THEN a ELSE -a, IF b > 0 THEN b ELSE -b)
         ELSE -F32Mul(IF a > 0 THEN a ELSE -a, IF b > 0 THEN b ELSE -b)

\* The float of the integer m * 2^(e - 150), 0 < m < 2^24.
RECURSIVE F32FromInt(_, _)
F32FromInt(m, e) ==
    IF m < F32Hidden THEN F32FromInt(2 * m, e - 1)
    ELSE e * F32Hidden + (m - F32Hidden)

\* The float with integer value n, |n| < 2^24.
F(n) ==
    IF n = 0 THEN 0
    ELSE IF n > 0 THEN F32FromInt(n, 150) ELSE -F32FromInt(-n, 150)

\* The float literal 0.5f.
Half == F32Lit(500)

\* #define MARKER_SIZE 15.0f
MARKER_SIZE == F(15)

--------------------------------------------------------------------------
(* Vector math primitives *)

\* float lerpf(float a, float b, float t)
lerpf(a, b, t) == FAdd(a, FMul(FSub(b, a), t))

vec2(x, y) == [x |-> x, y |-> y]

vec2_add(a, b) == vec2(FAdd(a.x, b.x), FAdd(a.y, b.y))

vec2_sub(a, b) == vec2(FSub(a.x, b.x), FSub(a.y, b.y))

vec2_scale(a, s) == vec2(FMul(a.x, s), FMul(a.y, s))

\* The interpolation taken from b towards a.
lerpv2_from_end(a, b, t) == vec2_add(b, vec2_scale(vec2_sub(a, b), t))

\* Vec2 lerpv2(Vec2 a, Vec2 b, float t)
lerpv2(a, b, t) == vec2_add(a, vec2_scale(vec2_sub(b, a), t))

\* A zero-initialised global Vec2.
ZeroVec == vec2(0, 0)

--------------------------------------------------------------------------
(* Memory *)

\* The cells of xs.
XsCells == 0 .. (PS_CAPACITY - 1)

\* The cells of ps, and the MaxOverflow cells behind it that ps[ps_count]
\* addresses once the store overflows.
PsCells == 0 .. (PS_CAPACITY + MaxOverflow - 1)

\* memcpy(dst, src, n * sizeof(Vec2))
memcpy(dst, src, n) == [i \in DOMAIN dst |-> IF i < n THEN src[i] ELSE dst[i]]

--------------------------------------------------------------------------
(* De Casteljau evaluator *)

\* One pass interpolating each cell with its left neighbour's new value:
\* the pair is taken as (xs[i+1], xs[i]).
RECURSIVE collapse_pass_swapped(_, _, _, _)
collapse_pass_swapped(buf, i, n, p) ==
    IF i < n - 1
    THEN collapse_pass_swapped(
             [buf EXCEPT ![i] = lerpv2(buf[i + 1], buf[i], p)], i + 1, n, p)
    ELSE buf

\* for (size_t i = 0; i < n - 1; i++) xs[i] = lerpv2(xs[i], xs[i+1], p);
RECURSIVE collapse_pass(_, _, _, _)
collapse_pass(buf, i, n, p) ==
    IF i < n - 1
    THEN collapse_pass([buf EXCEPT ![i] = lerpv2(buf[i], buf[i + 1], p)],
                       i + 1, n, p)
    ELSE buf

\* The collapse that stops one pass early, at while (n > 2).
RECURSIVE collapse_one_pass_short(_, _, _)
collapse_one_pass_short(buf, n, p) ==
    IF n > 2
    THEN collapse_one_pass_short(collapse_pass(buf, 0, n, p), n - 1, p)
    ELSE buf

\* while (n > 1) { <pass>; n--; }
RECURSIVE collapse(_, _, _)
collapse(buf, n, p) ==
    IF n > 1 THEN collapse(collapse_pass(buf, 0, n, p), n - 1, p) ELSE buf

\* The iterations of one pass over n cells, from iteration i on: each
\* writes cell i from the cells i and i + 1.
RECURSIVE pass_accesses(_, _)
pass_accesses(i, n) ==
    IF i < n - 1
    THEN <<[write |-> i, read |-> {i, i + 1}]>> \o pass_accesses(i + 1, n)
    ELSE <<>>

\* The passes of while (n > 1) { <pass>; n--; }, each with its iterations.
RECURSIVE collapse_passes(_)
collapse_passes(n) ==
    IF n > 1 THEN <<pass_accesses(0, n)>> \o collapse_passes(n - 1) ELSE <<>>

\* beziern_sample(ps, xs, n, p): the two arrays after the call, and the
\* returned point.
beziern_sample(points, scratch, n, p) ==
    LET buf == collapse(memcpy(scratch, points, n), n, p)
    IN  [ps |-> points, xs |-> buf, result |-> buf[0]]

--------------------------------------------------------------------------
(* Program state *)

VARIABLES
    ps,                  \* Vec2 ps[PS_CAPACITY], and the cells behind it
    xs,                  \* Vec2 xs[PS_CAPACITY], the scratch buffer
    ps_count,            \* int ps_count
    ps_selected,         \* int ps_selected
    markers,             \* int markers (main)
    quit,                \* int quit (main)
    bezier_sample_step,  \* float bezier_sample_step (main), as a bit pattern
    event,               \* SDL_Event event (main): the event last polled
    polled,              \* events SDL_PollEvent returned since the last frame
    pc,                  \* position of main in its loop
    call,                \* the last direct call of a library function
    drawn,               \* the draw calls of the frame being rendered
    layout               \* where the build places ps, xs and the two ints

vars == <<ps, xs, ps_count, ps_selected, markers, quit, bezier_sample_step,
          event, polled, pc, call, drawn, layout>>

(***************************************************************************)
(* The arrays in memory.  ps[PS_CAPACITY + j] and xs[PS_CAPACITY + j] are  *)
(* cells behind the arrays; which objects they are is up to the build.     *)
(* Two layouts are modelled.  In "xs_behind_ps" xs directly follows ps,    *)
(* and ps_count directly follows xs, with four bytes of padding behind it: *)
(* ps[PS_CAPACITY + j] is xs[j], xs[PS_CAPACITY] is ps_count, read as a    *)
(* float, with the padding, and the cells of xs further behind are cells   *)
(* no object of the model occupies.  In "ps_behind_xs" ps directly follows *)
(* xs: xs[PS_CAPACITY + j] is ps[j], and the cells behind ps are cells no  *)
(* other object of the model occupies.  In both, ps_selected lies in front *)
(* of the arrays, where no store of the program behind an array reaches    *)
(* it.  The variable ps carries the MaxOverflow cells behind ps; in        *)
(* "xs_behind_ps" they hold what the first cells of xs hold.               *)
(***************************************************************************)
Layouts == {"xs_behind_ps", "ps_behind_xs"}

\* The int whose bits are those of the float f, and the float whose bits
\* are those of the int i.
IntOfBits(f) == IF f >= 0 THEN f ELSE (-f) - 2147483647 - 1

BitsOfInt(i) == IF i >= 0 THEN i ELSE -(i + 2147483647 + 1)

\* The four globals as one value.
Globals ==
    [ps |-> ps, xs |-> xs, ps_count |-> ps_count, ps_selected |-> ps_selected]

\* The cells xs[0] .. xs[PS_CAPACITY + MaxOverflow - 1] of the globals g.
\* The padding behind ps_count and the cells behind it are read as 0: a
\* call that reads one of them has copied a point into it before.
ScratchCells(g) ==
    [i \in PsCells |->
        IF i < PS_CAPACITY THEN g.xs[i]
        ELSE IF layout = "ps_behind_xs" THEN g.ps[i - PS_CAPACITY]
        ELSE IF i = PS_CAPACITY THEN vec2(BitsOfInt(g.ps_count), 0)
        ELSE ZeroVec]

\* The points after the cells to + j .. to + MaxOverflow - 1 of points are
\* set to the cells from + j .. from + MaxOverflow - 1 of buf: the cells
\* two arrays share.
RECURSIVE StoreShared(_, _, _, _, _)
StoreShared(points, to, buf, from, j) ==
    IF j < MaxOverflow
    THEN StoreShared([points EXCEPT ![to + j] = buf[from + j]],
                     to, buf, from, j + 1)
    ELSE points

\* The globals g after the cells xs[0] .. xs[PS_CAPACITY + MaxOverflow - 1]
\* are set to buf.
StoreScratch(g, buf) ==
    IF layout = "xs_behind_ps"
    THEN [ps          |-> StoreShared(g.ps, PS_CAPACITY, buf, 0, 0),
          xs          |-> [i \in XsCells |-> buf[i]],
          ps_count    |-> IntOfBits(buf[PS_CAPACITY].x),
          ps_selected |-> g.ps_selected]
    ELSE [ps          |-> StoreShared(g.ps, 0, buf, PS_CAPACITY, 0),
          xs          |-> [i \in XsCells |-> buf[i]],
          ps_count    |-> g.ps_count,
          ps_selected |-> g.ps_selected]

\* xs after ps has become points: a store to ps[PS_CAPACITY + j] is a store
\* to xs[j] where the two are one cell.
StoredBehindPs(points) ==
    IF layout = "xs_behind_ps"
    THEN [i \in XsCells |->
             IF i < MaxOverflow THEN points[PS_CAPACITY + i] ELSE xs[i]]
    ELSE xs

\* The zero-initialised xs of a run that is handed its points in ps: where
\* xs lies behind ps, xs[j] holds what ps[PS_CAPACITY + j] holds.
ZeroScratch ==
    [i \in XsCells |->
        IF i < MaxOverflow /\ layout = "xs_behind_ps"
        THEN ps[PS_CAPACITY + i]
        ELSE ZeroVec]

\* beziern_sample(ps, xs, n, p) on the globals g.  The copy reads the n
\* points before it writes the n scratch cells.
sampled(g, n, p) ==
    StoreScratch(g, beziern_sample(g.ps, ScratchCells(g), n, p).xs)

\* beziern_sample(ps, xs, n, p) for each p of params in turn; done holds
\* the globals before the first evaluation and after each one made.
RECURSIVE sampled_each(_, _, _)
sampled_each(done, n, params) ==
    IF Len(done) <= Len(params)
    THEN sampled_each(
             Append(done, sampled(done[Len(done)], n, params[Len(done)])),
             n, params)
    ELSE done

\* The globals after beziern_sample(ps, xs, n, p) for each p of params, in
\* turn.  With n <= PS_CAPACITY every evaluation copies the same points
\* over the scratch it collapses, and the last one leaves the cells.  With
\* one point more and xs[PS_CAPACITY] being ps[0], the first evaluation
\* copies ps[PS_CAPACITY] into that cell, which no pass writes, and all
\* the later ones copy the same points.  Otherwise an evaluation reads
\* cells the one before has written: with ps[PS_CAPACITY] being xs[0] it
\* takes the result of the one before as a point.
sampled_all(g, n, params) ==
    IF params = <<>>
    THEN g
    ELSE IF n <= PS_CAPACITY \/ Len(params) = 1
    THEN sampled(g, n, params[Len(params)])
    ELSE IF layout = "ps_behind_xs" /\ n = PS_CAPACITY + 1
    THEN sampled(sampled(g, n, params[1]), n, params[Len(params)])
    ELSE sampled_each(<<g>>, n, params)[Len(params) + 1]

--------------------------------------------------------------------------
(* Control-point picker *)

\* The loop of ps_at from index i on, with exclusive upper edges.
RECURSIVE ps_at_scan_exclusive(_, _)
ps_at_scan_exclusive(pos, i) ==
    IF i < ps_count
    THEN LET ps_size  == vec2(MARKER_SIZE, MARKER_SIZE)
             ps_begin == vec2_sub(ps[i], vec2_scale(ps_size, Half))
             ps_end   == vec2_add(ps_begin, ps_size)
         IN  IF /\ pos.x >= ps_begin.x /\ pos.x < ps_end.x
                /\ pos.y >= ps_begin.y /\ pos.y < ps_end.y
             THEN i
             ELSE ps_at_scan_exclusive(pos, i + 1)
    ELSE -1

\* The loop of ps_at from index i on.
RECURSIVE ps_at_scan(_, _)
ps_at_scan(pos, i) ==
    IF i < ps_count
    THEN LET ps_size  == vec2(MARKER_SIZE, MARKER_SIZE)
             ps_begin == vec2_sub(ps[i], vec2_scale(ps_size, Half))
             ps_end   == vec2_add(ps_begin, ps_size)
         IN  IF /\ pos.x >= ps_begin.x /\ pos.x <= ps_end.x
                /\ pos.y >= ps_begin.y /\ pos.y <= ps_end.y
             THEN i
             ELSE ps_at_scan(pos, i + 1)
    ELSE -1

ps_at_exclusive(pos) == ps_at_scan_exclusive(pos, 0)

\* int ps_at(Vec2 pos)
ps_at(pos) == ps_at_scan(pos, 0)

--------------------------------------------------------------------------
(* Input events *)

\* Pointer positions (pixels) the input collaborator reports in button
\* events.  The first and the third lie clear of each other's marker, the
\* third in the pixel column 0; the second lies inside the marker of both.
MouseXY == {<<7, 10>>, <<3, 14>>, <<0, 18>>}

\* Pointer positions the input collaborator reports in motion events.
MotionXY == {<<7, 10>>, <<0, 18>>}

MouseButtons == {"SDL_BUTTON_LEFT", "SDL_BUTTON_RIGHT"}

KeySyms == {"SDLK_CAPSLOCK", "SDLK_SPACE"}

WheelY == {-1, 0, 1}

\* vec2(event.button.x, event.button.y): the int coordinates as floats.
MouseVec(xy) == vec2(F(xy[1]), F(xy[2]))

NoEvent == [type |-> "none"]

\* float bezier_sample_step = 0.05f
StepInitial == F32Lit(50)

\* The 0.001f a wheel notch adds or subtracts
StepNotch == F32Lit(1)

\* The bounds 0.001f and 1.0f of fmax and fmin
StepMin == F32Lit(1)
StepMax == F32Lit(1000)

Min2(a, b) == IF a < b THEN a ELSE b
Max2(a, b) == IF a > b THEN a ELSE b

\* The pointer positions as points.
MouseVecs == {MouseVec(xy) : xy \in MouseXY}

--------------------------------------------------------------------------
(* Render functions *)

(***************************************************************************)
(* A draw call is a record.  A marker or a line of the curve is placed by  *)
(* the evaluator; the record holds the number of points n and the          *)
(* parameter the evaluator is called with (a float bit pattern) in place   *)
(* of the position it returns.  In the frames of the session a call of     *)
(* render_bezier_markers or render_bezier_curve is one record, with the    *)
(* number of points and the step it is given.  A render function yields    *)
(* the draw calls it makes and the globals as its evaluations leave them.  *)
(***************************************************************************)

\* The parameters for (float p = first; p <= 1.0f; p += s) runs through.
RECURSIVE SampleLoop(_, _)
SampleLoop(p, s) ==
    IF p <= F32One THEN <<p>> \o SampleLoop(F32Add(p, s), s) ELSE <<>>

\* The parameters of the loop in both render functions
SampleTs(s) == SampleLoop(F32Add(F32Zero, s), s)

\* render_bezier_markers(renderer, ps, xs, n, s, color) on the globals g
render_bezier_markers(g, n, s, color) ==
    LET ts == SampleTs(s)
    IN  [drawn |->
            [k \in 1 .. Len(ts) |->
                [op |-> "render_marker", n |-> n, t |-> ts[k],
                 color |-> color]],
         globals |-> sampled_all(g, n, ts)]

\* render_bezier_curve(renderer, ps, xs, n, s, color) on the globals g:
\* each round evaluates at p for begin, then at p + s for end.
render_bezier_curve(g, n, s, color) ==
    LET ts == SampleTs(s)
    IN  [drawn |->
            [k \in 1 .. Len(ts) |->
                [op |-> "render_line", n |-> n, begin |-> ts[k],
                 end |-> F32Add(ts[k], s), color |-> color]],
         globals |->
            sampled_all(g, n,
                [k \in 1 .. 2 * Len(ts) |->
                    IF k % 2 = 1 THEN ts[(k + 1) \div 2]
                    ELSE F32Add(ts[k \div 2], s)])]

--------------------------------------------------------------------------
(* Session loop *)

Init ==
    /\ ps = [i \in PsCells |-> ZeroVec]
    /\ xs = [i \in XsCells |-> ZeroVec]
    /\ ps_count = 0
    /\ ps_selected = -1
    /\ markers = 1
    /\ quit = 0
    /\ bezier_sample_step = StepInitial
    /\ event = NoEvent
    /\ polled = 0
    /\ pc = "poll"
    /\ call = [fn |-> "none"]
    /\ drawn = <<>>
    /\ layout \in Layouts

\* SDL_PollEvent returns 1 and hands over an event.
PollEvent ==
    /\ pc = "poll"
    /\ polled < MaxEventsPerFrame
    /\ polled' = polled + 1

\* case SDL_QUIT
HandleQuit ==
    /\ PollEvent
    /\ event' = [type |-> "SDL_QUIT"]
    /\ quit' = 1
    /\ UNCHANGED <<ps, xs, ps_count, ps_selected, markers,
                   bezier_sample_step, pc, call, drawn, layout>>

\* The key-down case that also drops the selection.
HandleKeyDown_deselect(sym) ==
    /\ PollEvent
    /\ event' = [type |-> "SDL_KEYDOWN", sym |-> sym]
    /\ markers' = IF sym = "SDLK_CAPSLOCK"
                  THEN (IF markers = 0 THEN 1 ELSE 0)
                  ELSE markers
    /\ ps_selected' = -1
    /\ UNCHANGED <<ps, xs, ps_count, quit, bezier_sample_step, pc, call,
                   drawn, layout>>

\* case SDL_KEYDOWN
HandleKeyDown(sym) ==
    /\ PollEvent
    /\ event' = [type |-> "SDL_KEYDOWN", sym |-> sym]
    /\ markers' = IF sym = "SDLK_CAPSLOCK"
                  THEN (IF markers = 0 THEN 1 ELSE 0)
                  ELSE markers
    /\ UNCHANGED <<ps, xs, ps_count, ps_selected, quit, bezier_sample_step,
                   pc, call, drawn, layout>>

\* The left-button branch appending wherever the pointer is.
LeftButtonDown_always_add(mouse_pos) ==
    /\ ps_selected' = ps_at(mouse_pos)
    /\ ps' = [ps EXCEPT ![ps_count] = mouse_pos]
    /\ ps_count' = ps_count + 1

\* The left-button branch selecting the point it appends.
LeftButtonDown_select_new(mouse_pos) ==
    LET hit == ps_at(mouse_pos)
    IN  IF hit < 0
        THEN /\ ps' = [ps EXCEPT ![ps_count] = mouse_pos]
             /\ ps_count' = ps_count + 1
             /\ ps_selected' = ps_count
        ELSE /\ ps_selected' = hit
             /\ UNCHANGED <<ps, ps_count>>

\* case SDL_BUTTON_LEFT of SDL_MOUSEBUTTONDOWN
LeftButtonDown(mouse_pos) ==
    /\ ps_selected' = ps_at(mouse_pos)
    /\ IF ps_selected' < 0
       THEN /\ ps' = [ps EXCEPT ![ps_count] = mouse_pos]
            /\ ps_count' = ps_count + 1
       ELSE UNCHANGED <<ps, ps_count>>

\* An event of a type the switch has no case for.
HandleIgnored ==
    /\ PollEvent
    /\ event' = [type |-> "SDL_KEYUP"]
    /\ UNCHANGED <<ps, xs, ps_count, ps_selected, markers, quit,
                   bezier_sample_step, pc, call, drawn, layout>>

\* case SDL_MOUSEBUTTONDOWN.  The append of line 309 is followed
\* MaxOverflow cells behind the array (ps[PS_CAPACITY + j], which is xs[j]
\* where xs lies behind ps): the model hands main no press that would
\* take the store beyond PS_CAPACITY + MaxOverflow points.
HandleMouseButtonDown(button, xy) ==
    /\ PollEvent
    /\ (ps_count \notin 0 .. (PS_CAPACITY + MaxOverflow - 1)
           /\ button = "SDL_BUTTON_LEFT")
          => ps_at(MouseVec(xy)) >= 0
    /\ event' = [type |-> "SDL_MOUSEBUTTONDOWN", button |-> button, xy |-> xy]
    /\ IF button = "SDL_BUTTON_LEFT"
       THEN LeftButtonDown(MouseVec(xy))
       ELSE UNCHANGED <<ps, ps_count, ps_selected>>
    /\ xs' = StoredBehindPs(ps')
    /\ UNCHANGED <<markers, quit, bezier_sample_step, pc, call, drawn,
                   layout>>

\* The motion branch writing the first point.
MouseMotion_first(mouse_pos) ==
    IF ps_selected >= 0
    THEN ps' = [ps EXCEPT ![0] = mouse_pos]
    ELSE UNCHANGED ps

\* The motion branch without the test of the selection: with nothing
\* selected it writes the first point.
MouseMotion_unguarded(mouse_pos) ==
    ps' = [ps EXCEPT ![Max2(ps_selected, 0)] = mouse_pos]

\* The body of case SDL_MOUSEMOTION
MouseMotion(mouse_pos) ==
    IF ps_selected >= 0
    THEN ps' = [ps EXCEPT ![ps_selected] = mouse_pos]
    ELSE UNCHANGED ps

\* case SDL_MOUSEMOTION
HandleMouseMotion(xy) ==
    /\ PollEvent
    /\ event' = [type |-> "SDL_MOUSEMOTION", xy |-> xy]
    /\ MouseMotion(MouseVec(xy))
    /\ xs' = StoredBehindPs(ps')
    /\ UNCHANGED <<ps_count, ps_selected, markers, quit,
                   bezier_sample_step, pc, call, drawn, layout>>

\* The button-up branch that keeps the selection.
MouseButtonUp_keep(button) == UNCHANGED ps_selected

\* The body of case SDL_MOUSEBUTTONUP
MouseButtonUp(button) ==
    IF button = "SDL_BUTTON_LEFT"
    THEN ps_selected' = -1
    ELSE UNCHANGED ps_selected

\* case SDL_MOUSEBUTTONUP
HandleMouseButtonUp(button) ==
    /\ PollEvent
    /\ event' = [type |-> "SDL_MOUSEBUTTONUP", button |-> button]
    /\ MouseButtonUp(button)
    /\ UNCHANGED <<ps, xs, ps_count, markers, quit, bezier_sample_step, pc,
                   call, drawn, layout>>

\* The wheel branch without the upper bound.
WheelStep_no_upper_bound(step, y) ==
    IF y > 0
    THEN F32Add(step, StepNotch)
    ELSE Max2(F32Sub(step, StepNotch), StepMin)

\* The new step after a wheel event with vertical amount y.
WheelStep(step, y) ==
    IF y > 0
    THEN Min2(F32Add(step, StepNotch), StepMax)
    ELSE Max2(F32Sub(step, StepNotch), StepMin)

\* case SDL_MOUSEWHEEL
MouseWheel(y) ==
    /\ PollEvent
    /\ event' = [type |-> "SDL_MOUSEWHEEL", y |-> y]
    /\ bezier_sample_step' = WheelStep(bezier_sample_step, y)
    /\ UNCHANGED <<ps, xs, ps_count, ps_selected, markers, quit, pc, call,
                   drawn, layout>>

\* The step after k notches up from its initial value.
RECURSIVE StepUp(_)
StepUp(k) ==
    IF k = 0 THEN StepInitial ELSE WheelStep(StepUp(k - 1), 1)

\* The steps from the initial value to MaxWheel notches above it.
StepWindow == {StepUp(k) : k \in 0 .. MaxWheel}

\* case SDL_MOUSEWHEEL in the full session.  The model keeps the step
\* within StepWindow.
HandleMouseWheel(y) ==
    /\ WheelStep(bezier_sample_step, y) \in StepWindow
    /\ MouseWheel(y)

\* SDL_PollEvent returns 0: the queue is drained and no event is handed
\* over.
QueueEmpty ==
    /\ pc = "poll"
    /\ pc' = "clear"
    /\ event' = NoEvent
    /\ polled' = 0
    /\ UNCHANGED <<ps, xs, ps_count, ps_selected, markers, quit,
                   bezier_sample_step, call, drawn, layout>>

\* SDL_SetRenderDrawColor, SDL_RenderClear
Clear ==
    /\ pc = "clear"
    /\ pc' = "curve"
    /\ drawn' = <<[op |-> "SDL_RenderClear"]>>
    /\ UNCHANGED <<ps, xs, ps_count, ps_selected, markers, quit,
                   bezier_sample_step, event, call, layout, polled>>

\* The curve step of a frame: the call of a render function, made when
\* enough holds, and the globals it leaves.
CurveStep(enough) ==
    /\ pc = "curve"
    /\ pc' = "points"
    /\ IF enough
       THEN \E out \in {IF markers # 0
                         THEN render_bezier_markers(Globals, ps_count,
                                  bezier_sample_step, "GREEN_COLOR")
                         ELSE render_bezier_curve(Globals, ps_count,
                                  bezier_sample_step, "GREEN_COLOR")} :
                /\ drawn' = Append(drawn,
                      [op |-> IF markers # 0 THEN "render_bezier_markers"
                                             ELSE "render_bezier_curve",
                       n |-> ps_count, s |-> bezier_sample_step,
                       color |-> "GREEN_COLOR"])
                /\ ps' = out.globals.ps
                /\ xs' = out.globals.xs
                /\ ps_count' = out.globals.ps_count
                /\ ps_selected' = out.globals.ps_selected
       ELSE UNCHANGED <<drawn, ps, xs, ps_count, ps_selected>>
    /\ UNCHANGED <<markers, quit, bezier_sample_step, event, polled, call,
                   layout>>

\* The curve drawn whatever the number of points.
DrawCurve_always == CurveStep(TRUE)

\* if (ps_count >= 4) render_bezier_markers or render_bezier_curve, called
\* with ps, xs and ps_count.
DrawCurve == CurveStep(ps_count >= 4)

\* The control-point markers drawn right after the clear.
DrawPoints_first ==
    /\ pc = "points"
    /\ IF ps_count <= PS_CAPACITY + MaxOverflow
       THEN /\ pc' = "present"
            /\ drawn' = <<Head(drawn)>> \o
                  [i \in 1 .. ps_count |->
                      [op |-> "render_marker", pos |-> ps[i - 1],
                       color |-> "RED_COLOR"]] \o Tail(drawn)
       ELSE /\ pc' = "killed"
            /\ UNCHANGED drawn
    /\ UNCHANGED <<ps, xs, ps_count, ps_selected, markers, quit,
                   bezier_sample_step, event, call, layout, polled>>

\* The markers of a loop that a count behind the cells of the model takes
\* through memory: those of ps[0 .. PS_CAPACITY - 1], those of the cells of
\* xs behind them, then those of the cells behind xs, as one record: the
\* model holds neither their contents nor how many of them are mapped.
StrayMarkers ==
    [i \in 1 .. (2 * PS_CAPACITY + 1) |->
        IF i <= PS_CAPACITY
        THEN [op |-> "render_marker", pos |-> ps[i - 1],
              color |-> "RED_COLOR"]
        ELSE IF i <= 2 * PS_CAPACITY
        THEN [op |-> "render_marker", pos |-> xs[i - 1 - PS_CAPACITY],
              color |-> "RED_COLOR"]
        ELSE [op |-> "render_marker", cells |-> "behind xs",
              color |-> "RED_COLOR"]]

\* for (i = 0; ps_count > 0 && i < ps_count; i++) render_marker(ps[i]).
\* With a count that takes the loop past the cells of the model (the count
\* is overwritten only where xs lies behind ps), it runs on through memory
\* until a read faults and the process is killed.
DrawPoints ==
    /\ pc = "points"
    /\ IF ps_count <= PS_CAPACITY + MaxOverflow
       THEN /\ pc' = "present"
            /\ drawn' = drawn \o
                  [i \in 1 .. ps_count |->
                      [op |-> "render_marker", pos |-> ps[i - 1],
                       color |-> "RED_COLOR"]]
       ELSE /\ pc' = "killed"
            /\ drawn' = drawn \o StrayMarkers
    /\ UNCHANGED <<ps, xs, ps_count, ps_selected, markers, quit,
                   bezier_sample_step, event, call, layout, polled>>

\* SDL_RenderPresent
Present ==
    /\ pc = "present"
    /\ pc' = "delay"
    /\ drawn' = Append(drawn, [op |-> "SDL_RenderPresent"])
    /\ UNCHANGED <<ps, xs, ps_count, ps_selected, markers, quit,
                   bezier_sample_step, event, call, layout, polled>>

\* The loop tail going round whatever quit holds.
Delay_ignoring_quit ==
    /\ pc = "delay"
    /\ pc' = "poll"
    /\ drawn' = <<>>
    /\ UNCHANGED <<ps, xs, ps_count, ps_selected, markers, quit,
                   bezier_sample_step, event, call, layout, polled>>

\* SDL_Delay, t += DELTA_TIME_SEC, and the test of while (!quit); the
\* frame is on screen and its draw calls are over.
Delay ==
    /\ pc = "delay"
    /\ pc' = IF quit # 0 THEN "exit" ELSE "poll"
    /\ drawn' = <<>>
    /\ UNCHANGED <<ps, xs, ps_count, ps_selected, markers, quit,
                   bezier_sample_step, event, call, layout, polled>>

Next ==
    \/ HandleQuit
    \/ \E sym \in KeySyms : HandleKeyDown(sym)
    \/ \E button \in MouseButtons, xy \in MouseXY :
          HandleMouseButtonDown(button, xy)
    \/ \E xy \in MotionXY : HandleMouseMotion(xy)
    \/ \E button \in MouseButtons : HandleMouseButtonUp(button)
    \/ \E y \in WheelY : HandleMouseWheel(y)
    \/ HandleIgnored
    \/ QueueEmpty
    \/ Clear
    \/ DrawCurve
    \/ DrawPoints
    \/ Present
    \/ Delay

Spec == Init /\ [][Next]_vars

\* The session without pointer-down events, in which the wheel takes the
\* step through its whole range.
NextWheel ==
    \/ HandleQuit
    \/ \E sym \in KeySyms : HandleKeyDown(sym)
    \/ \E xy \in MotionXY : HandleMouseMotion(xy)
    \/ \E button \in MouseButtons : HandleMouseButtonUp(button)
    \/ \E y \in WheelY : MouseWheel(y)
    \/ HandleIgnored
    \/ QueueEmpty
    \/ Clear
    \/ DrawCurve
    \/ DrawPoints
    \/ Present
    \/ Delay

SpecWheel == Init /\ [][NextWheel]_vars

--------------------------------------------------------------------------
(* The evaluator called directly, over bounded inputs *)

\* Coordinates of the control points handed to the evaluator.
EvalCoords == {0, 100}

EvalVec == {vec2(F(x), F(y)) : x \in EvalCoords, y \in EvalCoords}

\* Interpolation parameters -0.25, 0, 0.25, ..., 1.25.
SampleParams == {FMul(F(k), F32Lit(250)) : k \in -1 .. 5}

InitEval ==
    /\ layout \in Layouts
    /\ ps_count \in 1 .. (PS_CAPACITY + MaxOverflow)
    /\ ps \in [PsCells -> EvalVec \cup {ZeroVec}]
    /\ \A i \in PsCells :
          IF i < ps_count THEN ps[i] \in EvalVec ELSE ps[i] = ZeroVec
    /\ xs = ZeroScratch
    /\ ps_selected = -1
    /\ markers = 1
    /\ quit = 0
    /\ bezier_sample_step = StepInitial
    /\ event = NoEvent
    /\ pc = "poll"
    /\ call = [fn |-> "none"]
    /\ drawn = <<>>
    /\ polled = 0

\* beziern_sample(ps, xs, ps_count, p), as the render functions call it on
\* a store of up to PS_CAPACITY + MaxOverflow points.  The call record
\* keeps the points the call was handed and the cells of xs, with the
\* MaxOverflow cells behind them, as the call leaves them.
CallSample(p) ==
    /\ ps_count \in 1 .. (PS_CAPACITY + MaxOverflow)
    /\ \E out \in {beziern_sample(ps, ScratchCells(Globals), ps_count, p)} :
        LET g == StoreScratch(Globals, out.xs)
        IN
        /\ ps' = g.ps
        /\ xs' = g.xs
        /\ ps_count' = g.ps_count
        /\ ps_selected' = g.ps_selected
        /\ call' = [fn |-> "beziern_sample", n |-> ps_count, p |-> p,
                    points |-> [i \in 0 .. (ps_count - 1) |-> ps[i]],
                    scratch |-> out.xs,
                    result |-> out.result,
                    passes |-> collapse_passes(ps_count)]
        /\ UNCHANGED <<markers, quit, bezier_sample_step, event, polled,
                       pc, drawn, layout>>

NextEval == \E p \in SampleParams : CallSample(p)

SpecEval == InitEval /\ [][NextEval]_vars

--------------------------------------------------------------------------
(* The render functions called directly, over bounded inputs *)

\* The steps handed to the render functions, in thousandths: 0.05 (the
\* initial step), 0.1, 0.125, 0.2, 0.25, 0.5 and 1.0.
StepMillis == {50, 100, 125, 200, 250, 500, 1000}

InitRender ==
    /\ layout \in Layouts
    /\ ps_count \in 1 .. (PS_CAPACITY + MaxOverflow)
    /\ ps \in [PsCells -> EvalVec \cup {ZeroVec}]
    /\ \A i \in PsCells :
          IF i < ps_count THEN ps[i] \in EvalVec ELSE ps[i] = ZeroVec
    /\ xs = ZeroScratch
    /\ ps_selected = -1
    /\ markers = 1
    /\ quit = 0
    /\ bezier_sample_step \in {F32Lit(m) : m \in StepMillis}
    /\ event = NoEvent
    /\ pc = "poll"
    /\ call = [fn |-> "none"]
    /\ drawn = <<>>
    /\ polled = 0

\* A render function called with ps, xs, ps_count and bezier_sample_step,
\* on a store of up to PS_CAPACITY + MaxOverflow points.
CallRender(fn, out) ==
    /\ ps_count \in 1 .. (PS_CAPACITY + MaxOverflow)
    /\ call' = [fn |-> fn, n |-> ps_count, s |-> bezier_sample_step]
    /\ \E made \in {out} :
          /\ drawn' = made.drawn
          /\ ps' = made.globals.ps
          /\ xs' = made.globals.xs
          /\ ps_count' = made.globals.ps_count
          /\ ps_selected' = made.globals.ps_selected
    /\ UNCHANGED <<markers, quit, bezier_sample_step, event, polled, pc,
                   layout>>

\* render_bezier_markers(renderer, ps, xs, ps_count, bezier_sample_step,
\* GREEN_COLOR)
CallRenderMarkers ==
    CallRender("render_bezier_markers",
        render_bezier_markers(Globals, ps_count, bezier_sample_step,
                              "GREEN_COLOR"))

\* render_bezier_curve(renderer, ps, xs, ps_count, bezier_sample_step,
\* GREEN_COLOR)
CallRenderCurve ==
    CallRender("render_bezier_curve",
        render_bezier_curve(Globals, ps_count, bezier_sample_step,
                            "GREEN_COLOR"))

NextRender == CallRenderMarkers \/ CallRenderCurve

SpecRender == InitRender /\ [][NextRender]_vars

--------------------------------------------------------------------------
(* The picker called directly, over bounded inputs *)

\* Distances of a probed position from a stored point, on each axis:
\* 8, 7.5 (on the edge of the marker) and 0.
ProbeOffsets ==
    {-F(8), -FMul(MARKER_SIZE, Half), 0, FMul(MARKER_SIZE, Half), F(8)}

ProbePos ==
    {vec2(FAdd(F(xy[1]), dx), FAdd(F(xy[2]), dy)) :
        xy \in MouseXY, dx \in ProbeOffsets, dy \in ProbeOffsets}

InitHit ==
    /\ layout \in Layouts
    /\ ps_count \in 0 .. (PS_CAPACITY + MaxOverflow)
    /\ ps \in [PsCells -> MouseVecs \cup {ZeroVec}]
    /\ \A i \in PsCells :
          IF i < ps_count THEN ps[i] # ZeroVec ELSE ps[i] = ZeroVec
    /\ xs = ZeroScratch
    /\ ps_selected = -1
    /\ markers = 1
    /\ quit = 0
    /\ bezier_sample_step = StepInitial
    /\ event = NoEvent
    /\ pc = "poll"
    /\ call = [fn |-> "none"]
    /\ drawn = <<>>
    /\ polled = 0

\* ps_at(pos), called once on the stored points drawn by InitHit.
CallPsAt(pos) ==
    /\ call.fn = "none"
    /\ call' = [fn |-> "ps_at", pos |-> pos, result |-> ps_at(pos)]
    /\ UNCHANGED <<ps, xs, ps_count, ps_selected, markers, quit,
                   bezier_sample_step, event, polled, pc, drawn, layout>>

NextHit == \E pos \in ProbePos : CallPsAt(pos)

SpecHit == InitHit /\ [][NextHit]_vars

--------------------------------------------------------------------------
(* Properties of the session loop (Spec) *)

\* This step handled an event of the given type: the drain loop polled it
\* and ran its case.
Handled(type) == pc = "poll" /\ pc' = "poll" /\ event'.type = type

\* The pointer position of the event this step handled.
HandledPos == MouseVec(event'.xy)

\* C1: the active point count never exceeds the capacity.
C1_CountWithinCapacity == ps_count <= PS_CAPACITY

\* C2: the selection is none (-1) or a valid index into the current point
\* sequence.
C2_SelectionValid == ps_selected = -1 \/ ps_selected \in 0 .. (ps_count - 1)

\* C3: while a point is selected, a pointer-move to q sets that point to q
\* and leaves every other point, the count and the selection as they were.
C3_DragMovesOnlySelected ==
    [][(Handled("SDL_MOUSEMOTION") /\ ps_selected >= 0)
          => /\ ps'[ps_selected] = HandledPos
             /\ \A j \in PsCells \ {ps_selected} : ps'[j] = ps[j]
             /\ ps_count' = ps_count
             /\ ps_selected' = ps_selected]_vars

\* C3 witness: a pointer-move has put the selected point, not the first
\* one, where the pointer is, away from the first point.
C3_Witness ==
    /\ event.type = "SDL_MOUSEMOTION"
    /\ ps_selected >= 1
    /\ ps[ps_selected] = MouseVec(event.xy)
    /\ ps[0] # ps[ps_selected]

\* C4 as claimed: with no selection, a pointer-down (of any button) on an
\* existing point selects it and adds no point.
C4_AnyButtonDownOnPointSelects ==
    [][(Handled("SDL_MOUSEBUTTONDOWN") /\ ps_selected = -1
            /\ ps_at(HandledPos) >= 0)
          => /\ ps_selected' = ps_at(HandledPos)
             /\ ps' = ps
             /\ ps_count' = ps_count]_vars

\* C4 amended: with no selection, a left-button pointer-down on an existing
\* point selects the lowest-index point under the pointer and adds no point.
C4_LeftDownOnPointSelects ==
    [][(Handled("SDL_MOUSEBUTTONDOWN") /\ event'.button = "SDL_BUTTON_LEFT"
            /\ ps_selected = -1 /\ ps_at(HandledPos) >= 0)
          => /\ ps_selected' = ps_at(HandledPos)
             /\ ps' = ps
             /\ ps_count' = ps_count]_vars

\* C4 witness: a left pointer-down has selected a stored point that lies
\* under the pointer but not at the pointer's position.
C4_Witness ==
    /\ event.type = "SDL_MOUSEBUTTONDOWN"
    /\ event.button = "SDL_BUTTON_LEFT"
    /\ ps_selected >= 0
    /\ ps_selected = ps_at(MouseVec(event.xy))
    /\ ps[ps_selected] # MouseVec(event.xy)

\* C5 as claimed: with no selection and capacity remaining, a pointer-down
\* (of any button) on empty space appends the position as the new last
\* point, keeps the stored points and leaves the selection none.
C5_AnyButtonDownOnEmptyAppends ==
    [][(Handled("SDL_MOUSEBUTTONDOWN") /\ ps_selected = -1
            /\ ps_count < PS_CAPACITY /\ ps_at(HandledPos) = -1)
          => /\ ps_count' = ps_count + 1
             /\ ps' = [ps EXCEPT ![ps_count] = HandledPos]
             /\ ps_selected' = -1]_vars

\* C5 amended: with no selection and capacity remaining, a left-button
\* pointer-down on empty space appends the position as the new last point,
\* keeps the stored points and leaves the selection none; the pointer-move
\* handled next in the same drain moves no point, the new one included.
C5_LeftDownOnEmptyAppends ==
    [][/\ (Handled("SDL_MOUSEBUTTONDOWN")
              /\ event'.button = "SDL_BUTTON_LEFT" /\ ps_selected = -1
              /\ ps_count < PS_CAPACITY /\ ps_at(HandledPos) = -1)
          => /\ ps_count' = ps_count + 1
             /\ ps' = [ps EXCEPT ![ps_count] = HandledPos]
             /\ ps_selected' = -1
       /\ (Handled("SDL_MOUSEMOTION") /\ event.type = "SDL_MOUSEBUTTONDOWN"
              /\ event.button = "SDL_BUTTON_LEFT" /\ ps_selected = -1)
          => /\ ps' = ps
             /\ ps_count' = ps_count
             /\ ps_selected' = -1]_vars

\* C5 witness: a left pointer-down has appended its position behind an
\* earlier point, within capacity, nothing is selected, and the drain goes
\* on with a pointer-move to another position.
C5_Witness ==
    /\ event.type = "SDL_MOUSEBUTTONDOWN"
    /\ event.button = "SDL_BUTTON_LEFT"
    /\ ps_selected = -1
    /\ ps_count \in 2 .. PS_CAPACITY
    /\ ps[ps_count - 1] = MouseVec(event.xy)
    /\ \E xy \in MotionXY :
          /\ xy # event.xy
          /\ ENABLED HandleMouseMotion(xy)

\* C6 as claimed: any pointer-up while a point is selected clears the
\* selection.
C6_AnyButtonUpClearsSelection ==
    [][(Handled("SDL_MOUSEBUTTONUP") /\ ps_selected >= 0)
          => ps_selected' = -1]_vars

\* C6 amended: a left-button pointer-up while a point is selected clears
\* the selection; while the selection is none a pointer-move changes no
\* point; and no event takes the selection from none but a left-button
\* pointer-down on an existing point.
C6_LeftUpClearsSelection ==
    [][/\ (Handled("SDL_MOUSEBUTTONUP") /\ event'.button = "SDL_BUTTON_LEFT"
              /\ ps_selected >= 0)
          => ps_selected' = -1
       /\ (Handled("SDL_MOUSEMOTION") /\ ps_selected = -1) => ps' = ps
       /\ (pc = "poll" /\ ps_selected = -1 /\ ps_selected' # -1)
          => /\ Handled("SDL_MOUSEBUTTONDOWN")
             /\ event'.button = "SDL_BUTTON_LEFT"
             /\ ps_at(HandledPos) = ps_selected']_vars

\* C6 witness: a left pointer-up has left the selection none, after a drag
\* that put two points on the same position.
C6_Witness ==
    /\ event.type = "SDL_MOUSEBUTTONUP"
    /\ event.button = "SDL_BUTTON_LEFT"
    /\ ps_selected = -1
    /\ \E i, j \in 0 .. (ps_count - 1) : i < j /\ ps[i] = ps[j]

--------------------------------------------------------------------------
(* Properties of the picker (SpecHit) *)

AbsDiff(a, b) == IF a >= b THEN FSub(a, b) ELSE FSub(b, a)

\* MARKER_SIZE / 2
HalfMarker == FMul(MARKER_SIZE, Half)

\* The indices of the stored points whose marker square, edges included,
\* contains pos: |pos.x - ps[i].x| <= MARKER_SIZE / 2, and so for y.
MarkersAt(pos) ==
    {i \in 0 .. (ps_count - 1) :
        /\ AbsDiff(pos.x, ps[i].x) <= HalfMarker
        /\ AbsDiff(pos.y, ps[i].y) <= HalfMarker}

\* C7: ps_at returns the lowest index whose marker square (edges included)
\* contains the position, and -1 exactly when no stored point's square
\* does; it never returns an index >= ps_count.
C7_HitTestLowestIndex ==
    call.fn = "ps_at" =>
        LET hits == MarkersAt(call.pos)
        IN  /\ call.result < ps_count
            /\ IF hits = {}
               THEN call.result = -1
               ELSE /\ call.result \in hits
                    /\ \A i \in hits : call.result <= i

\* C7 witness: a position on the edge of two stored markers was probed and
\* the lower index, not the first point, was returned.
C7_Witness ==
    /\ call.fn = "ps_at"
    /\ Cardinality(MarkersAt(call.pos)) >= 2
    /\ call.result >= 1
    /\ AbsDiff(call.pos.x, ps[call.result].x) = HalfMarker

--------------------------------------------------------------------------
(* Properties of the evaluator (SpecEval) *)

\* The recursive de Casteljau definition over points[lo .. hi]:
\* B(p[lo..hi], t) = lerp(B(p[lo..hi-1], t), B(p[lo+1..hi], t), t).
RECURSIVE DeCasteljau(_, _, _, _)
DeCasteljau(points, lo, hi, t) ==
    IF lo = hi
    THEN points[lo]
    ELSE lerpv2(DeCasteljau(points, lo, hi - 1, t),
                DeCasteljau(points, lo + 1, hi, t), t)

\* Scratch contents an evaluation may find in the cells it uses: all zero,
\* or one of the control points in every cell.
ScratchBuffers ==
    {[i \in PsCells |-> v] : v \in EvalVec \cup {ZeroVec}}

\* C8: an evaluation leaves the points it was handed as they were, and
\* what it returns is what it returns from any other contents of the
\* scratch buffer.
C8_EvaluateKeepsPoints ==
    [][(call'.fn = "beziern_sample" /\ call' # call)
          => /\ \A i \in 0 .. (call'.n - 1) : ps'[i] = ps[i]
             /\ \A scratch \in ScratchBuffers :
                   beziern_sample(ps, scratch, call'.n, call'.p).result
                      = call'.result]_vars

\* The control points of the worked example, (0,0) (0,100) (100,100) (100,0).
ExamplePoints ==
    <<vec2(F(0), F(0)), vec2(F(0), F(100)),
      vec2(F(100), F(100)), vec2(F(100), F(0))>>

\* C9: the iterative collapse returns the point of the recursive de
\* Casteljau definition; for two points that is lerp(p[0], p[1], t), and
\* for the worked example at t = 0.5 it is (50, 75).
C9_CollapseIsDeCasteljau ==
    call.fn = "beziern_sample" =>
        /\ call.result = DeCasteljau(call.points, 0, call.n - 1, call.p)
        /\ call.n = 2 =>
              call.result = lerpv2(call.points[0], call.points[1], call.p)
        /\ (call.n = 4 /\ call.p = Half
               /\ \A i \in 0 .. 3 : call.points[i] = ExamplePoints[i + 1])
              => call.result = vec2(F(50), F(75))

\* C9 witness: the worked example was evaluated at t = 0.5.
C9_Witness ==
    /\ call.fn = "beziern_sample"
    /\ call.n = 4
    /\ call.p = Half
    /\ \A i \in 0 .. 3 : call.points[i] = ExamplePoints[i + 1]
    /\ call.result = vec2(F(50), F(75))

\* C10: an evaluation at t = 0 returns the first control point and an
\* evaluation at t = 1 returns the last one.
C10_EndpointsInterpolated ==
    call.fn = "beziern_sample" =>
        /\ call.p = F(0) => call.result = call.points[0]
        /\ call.p = F(1) => call.result = call.points[call.n - 1]

\* C10 witness: PS_CAPACITY points with distinct ends were evaluated at
\* t = 1.
C10_Witness ==
    /\ call.fn = "beziern_sample"
    /\ call.n = PS_CAPACITY
    /\ call.p = F(1)
    /\ call.points[0] # call.points[call.n - 1]
    /\ call.result = call.points[call.n - 1]

\* The buffer after the given iterations of one pass, each interpolating
\* the two cells it reads into the cell it writes.
RECURSIVE ReplayPass(_, _, _)
ReplayPass(buf, accesses, p) ==
    IF accesses = <<>> THEN buf
    ELSE LET a == Head(accesses)
         IN  ReplayPass([buf EXCEPT ![a.write] =
                            lerpv2(buf[a.write], buf[a.write + 1], p)],
                        Tail(accesses), p)

\* The buffer after the given passes.
RECURSIVE Replay(_, _, _)
Replay(buf, passes, p) ==
    IF passes = <<>> THEN buf
    ELSE Replay(ReplayPass(buf, Head(passes), p), Tail(passes), p)

\* C19: an evaluation of N >= 1 points runs exactly N - 1 passes; pass k
\* makes N - k interpolations, the j-th writing cell j - 1 from the cells
\* j - 1 and j, no cell at or beyond N; these interpolations, made on a copy
\* of the points, give the first N cells of the scratch buffer as the call
\* leaves them, and the call returns its cell 0; for N = 1 there is no pass
\* and the result is points[0].
C19_CollapseTerminates ==
    call.fn = "beziern_sample" =>
        /\ call.n >= 1
        /\ Len(call.passes) = call.n - 1
        /\ \A k \in 1 .. Len(call.passes) :
              /\ Len(call.passes[k]) = call.n - k
              /\ \A j \in 1 .. Len(call.passes[k]) :
                    /\ call.passes[k][j].write = j - 1
                    /\ call.passes[k][j].read = {j - 1, j}
                    /\ \A c \in call.passes[k][j].read : c <= call.n - k
                    /\ \A c \in call.passes[k][j].read : c < call.n
        /\ \A i \in 0 .. (call.n - 1) :
              call.scratch[i] = Replay(call.points, call.passes, call.p)[i]
        /\ \A i \in XsCells : xs[i] = call.scratch[i]
        /\ call.result = xs[0]
        /\ call.n = 1 => (call.passes = <<>> /\ call.result = call.points[0])

\* C19 witness: PS_CAPACITY points were evaluated in PS_CAPACITY - 1
\* passes, to a point that is not the first control point.
C19_Witness ==
    /\ call.fn = "beziern_sample"
    /\ call.n = PS_CAPACITY
    /\ Len(call.passes) = PS_CAPACITY - 1
    /\ Len(call.passes[1]) = PS_CAPACITY - 1
    /\ call.result # call.points[0]

--------------------------------------------------------------------------
(* Properties of the sample step (SpecWheel) *)

\* C11: the sample step starts at 0.05; across every step of the session it
\* is within [0.001, 1.0] before and after; a wheel event of any amount
\* moves it by at most one increment of 0.001 (no further than the float
\* sum or difference of the step and 0.001f), and no other step changes it.
C11_StepClamped ==
    /\ bezier_sample_step = StepInitial
    /\ StepInitial = F32Lit(50)
    /\ [][/\ bezier_sample_step \in StepMin .. StepMax
          /\ bezier_sample_step' \in StepMin .. StepMax
          /\ IF Handled("SDL_MOUSEWHEEL")
             THEN /\ bezier_sample_step'
                        >= F32Sub(bezier_sample_step, StepNotch)
                  /\ bezier_sample_step'
                        <= F32Add(bezier_sample_step, StepNotch)
             ELSE bezier_sample_step' = bezier_sample_step]_vars

\* C11 witness: wheel events have taken the step from 0.05 up to its upper
\* bound, and the display mode was toggled on the way.
C11_Witness ==
    /\ event.type = "SDL_MOUSEWHEEL"
    /\ event.y > 0
    /\ bezier_sample_step = StepMax
    /\ markers = 0

--------------------------------------------------------------------------
(* Properties of the render functions (SpecRender) *)

\* C12: a marker-mode rendering with step s draws markers only, none at
\* t = 0, the first at t = s and each next one s further; there is one for
\* every multiple k * s <= 1.0 (1000 / m of them for a step of m
\* thousandths); for s = 0.25 they are the four at 0.25, 0.5, 0.75 and 1.0,
\* in that order.
C12_MarkersAtMultiples ==
    call.fn = "render_bezier_markers" =>
        /\ \A k \in 1 .. Len(drawn) :
              /\ drawn[k].op = "render_marker"
              /\ drawn[k].t # F32Zero
              /\ drawn[k].t = IF k = 1 THEN call.s
                              ELSE F32Add(drawn[k - 1].t, call.s)
        /\ \A m \in StepMillis :
              call.s = F32Lit(m) => Len(drawn) = 1000 \div m
        /\ call.s = F32Lit(250) =>
              [k \in 1 .. Len(drawn) |-> drawn[k].t]
                 = <<F32Lit(250), F32Lit(500), F32Lit(750), F32Lit(1000)>>

\* C17: a curve-mode rendering with step s draws lines only, one for each
\* parameter t of the marker-mode sequence, from the point at t to the point
\* at t + s; each line ends where the next begins, every line begins at
\* t <= 1.0 and none ends beyond 1.0 + s; for step 0.1 there are 10 lines.
C17_SegmentsChain ==
    call.fn = "render_bezier_curve" =>
        /\ Len(drawn) = Len(SampleTs(call.s))
        /\ \A k \in 1 .. Len(drawn) :
              /\ drawn[k].op = "render_line"
              /\ drawn[k].begin = SampleTs(call.s)[k]
              /\ drawn[k].end = F32Add(drawn[k].begin, call.s)
              /\ k < Len(drawn) => drawn[k].end = drawn[k + 1].begin
              /\ drawn[k].begin <= F32One
              /\ drawn[k].end <= F32Add(F32One, call.s)
        /\ call.s = F32Lit(100) => Len(drawn) = 10

--------------------------------------------------------------------------
(* Properties of the frames (Spec) *)

\* The draw calls that render the curve.
CurveCalls == {"render_bezier_markers", "render_bezier_curve"}

\* The positions in the draw log of the calls with one of the given names.
DrawnAt(ops) == {k \in 1 .. Len(drawn) : drawn[k].op \in ops}

\* The control-point markers of the current points, in index order.
PointMarkers ==
    [i \in 1 .. ps_count |->
        [op |-> "render_marker", pos |-> ps[i - 1], color |-> "RED_COLOR"]]

\* C13: the curve step of a frame renders the curve (markers or segments)
\* if and only if there are at least 4 points, from exactly that many; no
\* other step renders it, so it is never rendered from fewer than 4
\* points; and the step after it adds the markers of the placed points,
\* whatever their number, so that a frame of fewer than 4 points holds the
\* clear and these markers only when it is presented.
C13_CurveFromFourPoints ==
    [][/\ (pc = "curve") =>
             IF ps_count >= 4
             THEN /\ Len(drawn') = Len(drawn) + 1
                  /\ SubSeq(drawn', 1, Len(drawn)) = drawn
                  /\ drawn'[Len(drawn')].op \in CurveCalls
                  /\ drawn'[Len(drawn')].n = ps_count
             ELSE drawn' = drawn
       /\ (pc # "curve") =>
             \A k \in 1 .. Len(drawn') :
                 drawn'[k].op \in CurveCalls
                    => k <= Len(drawn) /\ drawn[k] = drawn'[k]
       /\ (pc = "points" /\ ps_count <= PS_CAPACITY + MaxOverflow) =>
             drawn' = drawn \o PointMarkers
       /\ (pc = "curve" /\ ps_count < 4) =>
             drawn = <<[op |-> "SDL_RenderClear"]>>
       /\ (pc = "present") =>
             drawn' = drawn \o <<[op |-> "SDL_RenderPresent"]>>]_vars

\* C13 witness: a finished frame of exactly 4 points, in curve mode, has
\* rendered the segments.
C13_Witness ==
    /\ pc = "delay"
    /\ ps_count = 4
    /\ markers = 0
    /\ drawn[2].op = "render_bezier_curve"
    /\ drawn[2].n = 4

\* C14: quit is set only by the drain step that handles a quit event and
\* is never reset; once it is set no new drain begins: the iteration goes
\* on to its frame, the loop test after the delay ends the loop, and
\* nothing runs after that.
C14_QuitEndsLoop ==
    [][/\ quit' # quit => (Handled("SDL_QUIT") /\ quit' # 0)
       /\ Handled("SDL_QUIT") => quit' # 0
       /\ quit # 0 => quit' # 0
       /\ (quit # 0 /\ pc # "poll") => pc' # "poll"
       /\ (quit # 0 /\ pc = "delay") => pc' = "exit"
       /\ pc # "exit"]_vars

\* C14 witness: the loop has ended after a quit event that came while a
\* point was being dragged, in curve mode, with a changed step.
C14_Witness ==
    /\ pc = "exit"
    /\ quit # 0
    /\ ps_selected >= 0
    /\ markers = 0
    /\ bezier_sample_step # StepInitial

C16_FrameReadsOneState ==
    [][(pc \in {"clear", "curve", "points", "present"})
          => /\ event' = event
             /\ ps_count' = ps_count
             /\ \A i \in 0 .. (ps_count - 1) : ps'[i] = ps[i]
             /\ ps_selected' = ps_selected
             /\ bezier_sample_step' = bezier_sample_step
             /\ markers' = markers]_vars

\* C18: a key-down or a wheel event leaves the selection, the count and
\* every stored point unchanged; the toggle key changes the display mode
\* only, any other key nothing, and a wheel event the sample step only.
C18_KeyAndWheelKeepSelection ==
    [][(Handled("SDL_KEYDOWN") \/ Handled("SDL_MOUSEWHEEL"))
          => /\ UNCHANGED <<ps, xs, ps_count, ps_selected, quit>>
             /\ Handled("SDL_KEYDOWN") =>
                   /\ bezier_sample_step' = bezier_sample_step
                   /\ IF event'.sym = "SDLK_CAPSLOCK"
                      THEN {markers, markers'} = {0, 1}
                      ELSE markers' = markers
             /\ Handled("SDL_MOUSEWHEEL") => markers' = markers]_vars

\* C18 witness: while a point is dragged, the toggle key was pressed after
\* the wheel had changed the step.
C18_Witness ==
    /\ event.type = "SDL_KEYDOWN"
    /\ event.sym = "SDLK_CAPSLOCK"
    /\ ps_selected >= 0
    /\ markers = 0
    /\ bezier_sample_step # StepInitial

\* C20: a pointer-move while nothing is selected changes nothing of the
\* session: the points, the count, the selection, the step, the display
\* mode and the quit flag are as before.
C20_IdleMoveIsNoOp ==
    [][(Handled("SDL_MOUSEMOTION") /\ ps_selected = -1)
          => UNCHANGED <<ps, xs, ps_count, ps_selected, bezier_sample_step,
                         markers, quit>>]_vars

\* C20 witness: with nothing selected the pointer has moved to a place
\* where no stored point is.
C20_Witness ==
    /\ event.type = "SDL_MOUSEMOTION"
    /\ ps_selected = -1
    /\ ps_count >= 2
    /\ \A i \in 0 .. (ps_count - 1) : ps[i] # MouseVec(event.xy)

==========================================================================
